---- MODULE Spec2Model ----
(***************************************************************************)
(* Model of node-red-src-editor: projection of a Node-RED flow collection  *)
(* onto a file tree (flows2Manifest, applyManifest), the reverse mapping   *)
(* (manifest2Flows) and the watcher's two asynchronous handlers.           *)
(*                                                                         *)
(* Strings that take part in name arithmetic (document names, file names,  *)
(* paths) are sequences of atoms: an atom is an indivisible run of         *)
(* characters, string concatenation is \o, and two strings are equal iff   *)
(* their atom sequences are.  The atoms are chosen so that every string    *)
(* has one decomposition: "/" , "\\", "-", " (k)", ".js", ".initialize".. *)
(***************************************************************************)
EXTENDS Integers, Sequences, FiniteSets, Bags, TLC

VARIABLES
    flows,        \* flowsResponse.flows: the held document collection
    manifest,     \* the manifest most recently built by flows2Manifest
    filesMap,     \* the name map of the last flows2Manifest call (a local of the call)
    projCalls,    \* number of flows2Manifest calls made on `flows`
    projPrev,     \* the manifest the previous flows2Manifest call returned
    files,        \* the path index (path -> document id) applyManifest returned
    fs,           \* the tree below sourcePath: path -> [kind, content, mtime]
    clock,        \* the time file writes are stamped with
    pass,         \* record of the last applyManifest call (observation only)
    rmap,         \* record of the last manifest2Flows call (observation only)
    nPass,        \* applyManifest calls made
    nExt,         \* changes made to the tree from outside
    rev,          \* flowsResponse.rev: the held revision
    remoteFlows,  \* the collection the Node-RED server holds
    remoteRev,    \* the revision the Node-RED server holds
    notes,        \* runtime-deploy notifications on their way to the listener
    fetches,      \* remote handlers suspended in `await getFlows`
    pushes,       \* timer callbacks suspended in `await postFlows`
    changeQueue,  \* changeQueue
    updateTimer,  \* updateTimer: whether a timer is pending
    events,       \* chokidar change events not yet delivered
    crashed,      \* an exception left a handler: the process is gone
    needRefetch,  \* a push failed with a conflict and no remote pass ran since
    nDeploys,     \* deploys made by other clients
    nPushes,      \* postFlows calls made
    saved,        \* manifest.json: nothing, or the manifest written there
    discarded,    \* some notification was ignored for carrying the held revision
    timing,       \* the time, the configured delay, the timeouts set and what
                  \* the change handler did when
    listener      \* the websocket listener: its connection and its retry delay

projVars == <<filesMap, projCalls, projPrev>>
treeVars == <<files, fs, clock, pass, rmap, nPass, nExt>>
sideVars == <<timing, listener>>
coordVarsButSide == <<rev, remoteFlows, remoteRev, notes, fetches, pushes, changeQueue,
                      updateTimer, events, crashed, needRefetch, nDeploys, nPushes,
                      saved, discarded>>
coordVars == <<coordVarsButSide, sideVars>>

vars == <<flows, manifest, projVars, treeVars, coordVars>>

-----------------------------------------------------------------------------
(* Bounds *)

MaxDocs == 3      \* longest document collection drawn as an input
MaxCalls == 2     \* flows2Manifest calls made on one collection
MaxOps == 3       \* applyManifest calls, outside changes to the tree and the
                  \* manifest2Flows call that ends it, in one run
MaxSteps == 5     \* deploys by other clients, files saved by the user and
                  \* postFlows calls while the watcher runs
MaxTicks == 6     \* half seconds that pass while the change handler is timed
MaxChanges == 3   \* change events the file watcher reports in that time
MaxRetries == 6   \* times the websocket closes while the listener runs
MaxMessages == 2  \* event messages the server sends while the listener runs
MaxTime == MaxOps - 1      \* last value of the clock
MaxChanged == MaxOps - 1   \* longest list of changed paths handed to manifest2Flows

-----------------------------------------------------------------------------
(* types.ts *)

Roles == {"func", "format", "initialize", "finalize", "info"}

\* flowFilesProperties, in declaration order.
flowFilesProperties ==
    << [type |-> "func",       extension |-> <<".js">>],
       [type |-> "format",     extension |-> <<".vue">>],
       [type |-> "initialize", extension |-> <<".initialize", ".js">>],
       [type |-> "finalize",   extension |-> <<".finalize", ".js">>],
       [type |-> "info",       extension |-> <<".info", ".md">>] >>

\* flowFolderProperties: the container types and the field that names them.
flowFolderProperties == [tab |-> "label", subflow |-> "name"]

supportedFlowFileTypes == {"function", "ui-template"}

EmptyManifest == [folders |-> <<>>, files |-> <<>>]

-----------------------------------------------------------------------------
(* Strings *)

\* ` (${existingFilesCount})`
Suffix(k) == " (" \o ToString(k) \o ")"

\* name.replace(/[\/\\]/g, '-')
ReplaceSeparators(name) ==
    [i \in 1..Len(name) |-> IF name[i] \in {"/", "\\"} THEN "-" ELSE name[i]]

\* path.join(a, b) for two arguments without separators: empty arguments are
\* dropped and an empty result is ".".
PathJoin(a, b) ==
    IF a = <<>> THEN (IF b = <<>> THEN <<".">> ELSE b)
    ELSE IF b = <<>> THEN a
    ELSE a \o <<"/">> \o b

\* content.trim().length: some character of the content is not white space.
TrimLength(content) == Cardinality({i \in 1..Len(content) : content[i] # " "})

-----------------------------------------------------------------------------
(* flows2src.ts: sanitizeName *)

\* The call's result and the map it leaves: JavaScript mutates the map in place.
sanitizeName(name, folderName, existingFileNames) ==
    LET n == ReplaceSeparators(name)
        filePath == PathJoin(folderName, n)
        existingFilesCount ==
            IF filePath \in DOMAIN existingFileNames THEN existingFileNames[filePath] ELSE 0
    IN  IF existingFilesCount # 0
        THEN [name |-> Append(n, Suffix(existingFilesCount)),
              map  |-> [existingFileNames EXCEPT ![filePath] = existingFilesCount + 1]]
        ELSE [name |-> n,
              map  |-> (filePath :> 1) @@ existingFileNames]

-----------------------------------------------------------------------------
(* flows2src.ts: flows2Manifest *)

\* const filesMap = new Map(); filesMap.set('default', 1)
NewFilesMap == (<<"default">> :> 1)

\* A map that is not created by the call but left by the previous one.
StaleFilesMap == filesMap

\* The map a call starts from: created inside the call, so always the new one.
CallFilesMap == NewFilesMap

\* flowItem[folderProperty.name]
FolderRawName(flowItem) ==
    IF flowFolderProperties[flowItem.type] = "label" THEN flowItem.label ELSE flowItem.name

IsFolderItem(flowItem) ==
    /\ flowItem.type \in DOMAIN flowFolderProperties
    /\ FolderRawName(flowItem) # <<>>

\* First loop: one folder per named tab or subflow, in input order.
\* The state is [folders, map].
RECURSIVE FoldersLoop(_, _, _)
FoldersLoop(fl, i, st) ==
    IF i > Len(fl) THEN st
    ELSE IF ~IsFolderItem(fl[i]) THEN FoldersLoop(fl, i + 1, st)
    ELSE LET name == FolderRawName(fl[i])
             r == sanitizeName(name, <<>>, st.map)
             manifestFolder == [id |-> fl[i].id, type |-> fl[i].type,
                                name |-> name, folderName |-> r.name]
         IN  FoldersLoop(fl, i + 1,
                 [folders |-> Append(st.folders, manifestFolder), map |-> r.map])

\* manifest.folders[flowItem.z]: the folders whose id is z (ids are unique).
FolderOf(folders, z) == {i \in 1..Len(folders) : folders[i].id = z}

\* (flowItem.z && manifest.folders[flowItem.z]) ... folder?.folderName || 'default'
FolderNameOf(folders, flowItem) ==
    IF flowItem.z # "" /\ FolderOf(folders, flowItem.z) # {}
    THEN folders[CHOOSE i \in FolderOf(folders, flowItem.z) : TRUE].folderName
    ELSE <<"default">>

\* A test of the content that does not trim it.
HasContentUntrimmed(flowItem, role) == flowItem.props[role] # <<>>

\* content && typeof content === 'string' && content.trim().length
HasContent(flowItem, role) ==
    /\ flowItem.props[role] # <<>>
    /\ TrimLength(flowItem.props[role]) > 0

\* The inner loop over flowFilesProperties: one ManifestFile per populated role.
RECURSIVE ItemFiles(_, _, _)
ItemFiles(flowItem, baseFileName, k) ==
    IF k > Len(flowFilesProperties) THEN <<>>
    ELSE LET fileProperty == flowFilesProperties[k]
             rest == ItemFiles(flowItem, baseFileName, k + 1)
         IN  IF HasContent(flowItem, fileProperty.type)
             THEN << [type |-> fileProperty.type,
                      name |-> baseFileName \o fileProperty.extension,
                      content |-> flowItem.props[fileProperty.type],
                      modifiedTime |-> {}] >> \o rest
             ELSE rest

\* Second loop: one item per supported leaf with at least one file.
\* The state is [files, map].
RECURSIVE FilesLoop(_, _, _, _)
FilesLoop(fl, folders, i, st) ==
    IF i > Len(fl) THEN st
    ELSE IF fl[i].type \notin supportedFlowFileTypes THEN FilesLoop(fl, folders, i + 1, st)
    ELSE LET folderName == FolderNameOf(folders, fl[i])
             r == sanitizeName(fl[i].name, folderName, st.map)
             itemFiles == ItemFiles(fl[i], r.name, 1)
             item == [id |-> fl[i].id, type |-> fl[i].type, name |-> fl[i].name,
                      folderName |-> folderName, baseFileName |-> r.name,
                      files |-> itemFiles]
         IN  FilesLoop(fl, folders, i + 1,
                 [files |-> IF itemFiles # <<>> THEN Append(st.files, item) ELSE st.files,
                  map |-> r.map])

\* The whole call, started from the name map `seen`: the manifest and the map left.
Flows2ManifestFrom(fl, seen) ==
    LET a == FoldersLoop(fl, 1, [folders |-> <<>>, map |-> seen])
        b == FilesLoop(fl, a.folders, 1, [files |-> <<>>, map |-> a.map])
    IN  [manifest |-> [folders |-> a.folders, files |-> b.files], map |-> b.map]

flows2Manifest(fl) == Flows2ManifestFrom(fl, CallFilesMap).manifest

-----------------------------------------------------------------------------
(* The file tree.  Paths are relative to sourcePath, which exists (line 236). *)

RECURSIVE LastSlash(_, _)
LastSlash(p, i) == IF i = 0 THEN 0 ELSE IF p[i] = "/" THEN i ELSE LastSlash(p, i - 1)

\* path.dirname and path.basename
Dirname(p) == SubSeq(p, 1, LastSlash(p, Len(p)) - 1)
Basename(p) == SubSeq(p, LastSlash(p, Len(p)) + 1, Len(p))

\* The atoms that are a dot followed by letters.
DotAtoms == {".js", ".vue", ".md", ".txt", ".initialize", ".finalize", ".info"}

\* path.extname(file): from the last dot of the base name, the dot included; empty
\* when the base name has no dot or only a leading one.
Extname(file) ==
    IF Len(file) >= 2 /\ file[Len(file)] \in DotAtoms THEN file[Len(file)] ELSE ""

\* fs.existsSync
ExistsSync(tree, p) == p \in DOMAIN tree

IsDirectory(tree, p) == p = <<>> \/ (p \in DOMAIN tree /\ tree[p].kind = "dir")
IsFile(tree, p) == p \in DOMAIN tree /\ tree[p].kind = "file"

\* fs.writeFileSync succeeds iff the parent is a directory and the path is not one.
CanWrite(tree, p) == IsDirectory(tree, Dirname(p)) /\ ~IsDirectory(tree, p)

WriteFileSync(tree, p, content, t) ==
    (p :> [kind |-> "file", content |-> content, mtime |-> t]) @@ tree

\* fs.mkdirSync(p, { recursive: true }) for a missing directory.
MkdirSync(tree, p) == (p :> [kind |-> "dir", content |-> <<>>, mtime |-> 0]) @@ tree

\* fs.unlinkSync for each path of a set.
Unlink(tree, ps) == [p \in DOMAIN tree \ ps |-> tree[p]]

-----------------------------------------------------------------------------
(* flows2src.ts: applyManifest *)

NewStats == [foldersCreated |-> 0, foldersDeleted |-> 0, filesCreated |-> 0,
             filesUpdated |-> 0, filesDeleted |-> 0, totalModified |-> 0]

\* new Map(): no path
NewFiles == [p \in {} |-> ""]

\* Lines 251-261: create the missing folders.
RECURSIVE ApplyFolders(_, _, _)
ApplyFolders(m, i, st) ==
    IF i > Len(m.folders) THEN st
    ELSE LET folderPath == m.folders[i].folderName
         IN  IF ~ExistsSync(st.fs, folderPath)
             THEN ApplyFolders(m, i + 1,
                     [st EXCEPT !.fs = MkdirSync(st.fs, folderPath),
                                !.stats.foldersCreated = @ + 1])
             ELSE ApplyFolders(m, i + 1, st)

\* existingManifest.files[manifestItem.id]?.files.find(f => f.type === type):
\* the recorded files of that document and role (none or one).
ExistingFile(existingManifest, id, type) ==
    {existingManifest.files[k].files[j] :
        <<k, j>> \in {q \in (1..Len(existingManifest.files)) \X (1..5) :
                        /\ existingManifest.files[q[1]].id = id
                        /\ q[2] <= Len(existingManifest.files[q[1]].files)
                        /\ existingManifest.files[q[1]].files[q[2]].type = type}}

\* Line 275: !existingFile || existingFile.modifiedTime !== statSync(filePath).mtimeMs
\* (a modifiedTime never set is undefined and differs from every mtime).
MustOverwrite(existingFile, tree, filePath, manifestFile) ==
    \/ existingFile = {}
    \/ \A f \in existingFile : f.modifiedTime # {tree[filePath].mtime}

\* Lines 264-283, one ManifestFile: item i, file j, written at time t.
ApplyFile(m, existingManifest, i, j, t, st) ==
    LET manifestItem == st.manifest.files[i]
        manifestFile == manifestItem.files[j]
        existingFile == ExistingFile(existingManifest, manifestItem.id, manifestFile.type)
        filePath == PathJoin(manifestItem.folderName, manifestFile.name)
        written == [st EXCEPT
                      !.fs = WriteFileSync(st.fs, filePath, manifestFile.content, t),
                      !.rewritten = IF ExistsSync(st.fs, filePath)
                                    THEN @ \cup {filePath} ELSE @,
                      !.manifest.files[i].files[j].modifiedTime = {t},
                      !.files = (filePath :> manifestItem.id) @@ st.files]
    IN  IF ~ExistsSync(st.fs, filePath)
        THEN IF CanWrite(st.fs, filePath)
             THEN [written EXCEPT !.stats.filesCreated = @ + 1]
             ELSE [st EXCEPT !.threw = TRUE]
        ELSE IF MustOverwrite(existingFile, st.fs, filePath, manifestFile)
        THEN IF CanWrite(st.fs, filePath)
             THEN [written EXCEPT !.stats.filesUpdated = @ + 1]
             ELSE [st EXCEPT !.threw = TRUE]
        ELSE [st EXCEPT !.files = (filePath :> manifestItem.id) @@ st.files]

\* The files loop.  The call is short against the clock: every write of one call
\* is stamped with the same time.
RECURSIVE ApplyFiles(_, _, _, _, _, _)
ApplyFiles(m, existingManifest, i, j, now, st) ==
    IF st.threw \/ i > Len(m.files) THEN st
    ELSE IF j > Len(m.files[i].files)
    THEN ApplyFiles(m, existingManifest, i + 1, 1, now, st)
    ELSE ApplyFiles(m, existingManifest, i, j + 1, now,
                    ApplyFile(m, existingManifest, i, j, now, st))

\* const extensions = ['vue', 'js', 'md']
extensions == {"vue", "js", "md"}

\* A sweep that deletes every file the index does not hold.
SweepDeletesAny(tree, index, p) ==
    IsFile(tree, p) /\ p \notin DOMAIN index

\* Line 298: stat.isFile() && extensions.includes(path.extname(file)) && !files.has(filePath)
SweepDeletes(tree, index, p) ==
    IsFile(tree, p) /\ Extname(Basename(p)) \in extensions /\ p \notin DOMAIN index

\* Lines 285-304: every directory below sourcePath is visited.
Sweep(st) ==
    LET dead == {p \in DOMAIN st.fs : SweepDeletes(st.fs, st.files, p)}
    IN  [st EXCEPT !.fs = Unlink(st.fs, dead),
                   !.stats.filesDeleted = @ + Cardinality(dead)]

\* A total that counts the files only.
TotalOfFiles(stats) == stats.filesCreated + stats.filesUpdated + stats.filesDeleted

\* Line 307
Total(stats) == stats.filesCreated + stats.filesUpdated + stats.filesDeleted
                + stats.foldersCreated + stats.foldersDeleted

\* The whole call: the tree, the manifest (its modifiedTime fields are set in
\* place), the stats and the index it leaves, and whether it threw on the way.
\* `rewritten` holds the existing files it wrote to, which the file watcher sees.
applyManifest(m, existingManifest, tree, now) ==
    LET st0 == [fs |-> tree, manifest |-> m, stats |-> NewStats, files |-> NewFiles,
                threw |-> FALSE, rewritten |-> {}]
        st1 == ApplyFolders(m, 1, st0)
        st2 == ApplyFiles(m, existingManifest, 1, 1, now, st1)
        st3 == IF st2.threw THEN st2 ELSE Sweep(st2)
    IN  [st3 EXCEPT !.stats.totalModified = IF st3.threw THEN 0 ELSE Total(st3.stats)]

-----------------------------------------------------------------------------
(* src2flows.ts: manifest2Flows *)

\* One changed path taken into the manifest only: the document keeps its field.
ReverseOneSnapshotOnly(filePath, index, tree, st) ==
    LET id == IF filePath \in DOMAIN index THEN index[filePath] ELSE ""
        items == {k \in 1..Len(st.manifest.files) : st.manifest.files[k].id = id}
        k == CHOOSE x \in items : TRUE
        fileName == Basename(filePath)
        found == {j \in 1..Len(st.manifest.files[k].files) :
                     st.manifest.files[k].files[j].name = fileName}
        j == CHOOSE x \in found : \A y \in found : x <= y
        docs == {d \in 1..Len(st.flows) : st.flows[d].id = id}
    IN  IF id = "" \/ items = {} THEN st
        ELSE IF found = {} \/ docs = {} THEN st
        ELSE IF ~IsFile(tree, filePath) THEN [st EXCEPT !.threw = TRUE]
        ELSE [st EXCEPT
                !.manifest.files[k].files[j].content = tree[filePath].content,
                !.manifest.files[k].files[j].modifiedTime = {tree[filePath].mtime},
                !.changed = @ + 1]

\* One changed path skipped when the file holds what the snapshot holds.
ReverseOneIfDiffers(filePath, index, tree, st) ==
    LET id == IF filePath \in DOMAIN index THEN index[filePath] ELSE ""
        items == {k \in 1..Len(st.manifest.files) : st.manifest.files[k].id = id}
        k == CHOOSE x \in items : TRUE
        fileName == Basename(filePath)
        found == {j \in 1..Len(st.manifest.files[k].files) :
                     st.manifest.files[k].files[j].name = fileName}
        j == CHOOSE x \in found : \A y \in found : x <= y
        docs == {d \in 1..Len(st.flows) : st.flows[d].id = id}
        d == CHOOSE x \in docs : \A y \in docs : x <= y
        role == st.manifest.files[k].files[j].type
    IN  IF id = "" \/ items = {} THEN st
        ELSE IF found = {} \/ docs = {} THEN st
        ELSE IF ~IsFile(tree, filePath) THEN [st EXCEPT !.threw = TRUE]
        ELSE IF st.manifest.files[k].files[j].content = tree[filePath].content THEN st
        ELSE [st EXCEPT
                !.manifest.files[k].files[j].content = tree[filePath].content,
                !.manifest.files[k].files[j].modifiedTime = {tree[filePath].mtime},
                !.flows[d].props[role] = tree[filePath].content,
                !.changed = @ + 1]

\* One changed path (lines 31-58).  The state is [flows, manifest, changed, threw].
ReverseOne(filePath, index, tree, st) ==
    LET id == IF filePath \in DOMAIN index THEN index[filePath] ELSE ""
        items == {k \in 1..Len(st.manifest.files) : st.manifest.files[k].id = id}
        k == CHOOSE x \in items : TRUE
        fileName == Basename(filePath)
        found == {j \in 1..Len(st.manifest.files[k].files) :
                     st.manifest.files[k].files[j].name = fileName}
        j == CHOOSE x \in found : \A y \in found : x <= y
        docs == {d \in 1..Len(st.flows) : st.flows[d].id = id}
        d == CHOOSE x \in docs : \A y \in docs : x <= y
        role == st.manifest.files[k].files[j].type
    IN  IF id = "" \/ items = {} THEN st
        ELSE IF found = {} \/ docs = {} THEN st
        ELSE IF ~IsFile(tree, filePath) THEN [st EXCEPT !.threw = TRUE]
        ELSE [st EXCEPT
                !.manifest.files[k].files[j].content = tree[filePath].content,
                !.manifest.files[k].files[j].modifiedTime = {tree[filePath].mtime},
                !.flows[d].props[role] = tree[filePath].content,
                !.changed = @ + 1]

RECURSIVE ReverseLoop(_, _, _, _, _)
ReverseLoop(changedFiles, n, index, tree, st) ==
    IF st.threw \/ n > Len(changedFiles) THEN st
    ELSE ReverseLoop(changedFiles, n + 1, index, tree,
                     ReverseOne(changedFiles[n], index, tree, st))

manifest2Flows(fl, m, changedFiles, index, tree) ==
    ReverseLoop(changedFiles, 1, index, tree,
                [flows |-> fl, manifest |-> m, changed |-> 0, threw |-> FALSE])

-----------------------------------------------------------------------------
(* Inputs: document collections *)

None == ""

\* A role field that is absent (undefined) or '' is the empty string here: the code
\* reads role fields only through a truthiness test.
NoProps == [r \in Roles |-> <<>>]

Tab(label)            == [type |-> "tab", label |-> label, name |-> <<>>, z |-> None,
                          props |-> NoProps]
Subflow(name)         == [type |-> "subflow", label |-> <<>>, name |-> name, z |-> None,
                          props |-> NoProps]
Leaf(type, name, z, props) ==
    [type |-> type, label |-> <<>>, name |-> name, z |-> z, props |-> props]

X == <<"x">>
Y == <<"y">>

\* Documents without their id: the id is the position in the collection.
DocTemplates ==
    { Tab(<<"Flow">>), Tab(<<"Flow", " (1)">>), Subflow(<<"Flow">>),
      Tab(<<"default">>), Tab(<<>>), Tab(<<"a", "/", "b">>),
      Leaf("function", <<"a">>, "n1", [NoProps EXCEPT !.func = X]),
      Leaf("function", <<"a">>, "n1", [NoProps EXCEPT !.func = Y]),
      Leaf("function", <<"a">>, "n1", [NoProps EXCEPT !.initialize = X]),
      Leaf("function", <<"a", ".initialize">>, "n1", [NoProps EXCEPT !.func = Y]),
      Leaf("function", <<>>, "n1", [NoProps EXCEPT !.func = X]),
      Leaf("function", <<"a">>, None, [NoProps EXCEPT !.func = X, !.info = Y]),
      Leaf("function", <<"a">>, "n1", [NoProps EXCEPT !.func = <<" ">>]),
      Leaf("ui-template", <<"a">>, "n2", [NoProps EXCEPT !.format = X]),
      Leaf("inject", <<"a">>, "n1", [NoProps EXCEPT !.func = X]) }

DocId(i) == "n" \o ToString(i)

WithIds(ts) ==
    [i \in 1..Len(ts) |->
        [id |-> DocId(i), type |-> ts[i].type, label |-> ts[i].label,
         name |-> ts[i].name, z |-> ts[i].z, props |-> ts[i].props]]

SeqsUpTo(S, n) == UNION {[1..k -> S] : k \in 0..n}

FlowsInputs == {WithIds(ts) : ts \in SeqsUpTo(DocTemplates, MaxDocs)}

-----------------------------------------------------------------------------
(* Projection alone: flows2Manifest called repeatedly on a held collection *)

NoPass == [done |-> FALSE, threw |-> FALSE, again |-> FALSE, quiet |-> FALSE,
           fsBefore |-> <<>>, existing |-> EmptyManifest, flows |-> <<>>,
           stats |-> NewStats, rewritten |-> {}]

NoRmap == [done |-> FALSE, full |-> FALSE, threw |-> FALSE, changed |-> 0, pushed |-> FALSE,
           paths |-> <<>>, flowsBefore |-> <<>>, manifestBefore |-> EmptyManifest]

\* No time has passed, no delay is configured, no timeout is set.
NoTiming == [now |-> 0, delay |-> {}, pending |-> <<>>, times |-> <<>>,
             log |-> <<>>, batches |-> <<>>]

\* No listener was started.
NoListener == [state |-> "none", delay |-> 0, failures |-> 0, waits |-> <<>>,
               base |-> <<>>, url |-> <<>>, token |-> {}, sent |-> <<>>, inbox |-> <<>>,
               refused |-> FALSE, published |-> 0, trace |-> <<>>]

\* No server, no call in flight, nothing queued.
InitNoHandler ==
    /\ rev = 0
    /\ remoteFlows = <<>>
    /\ remoteRev = 0
    /\ notes = <<>>
    /\ fetches = EmptyBag
    /\ pushes = EmptyBag
    /\ changeQueue = <<>>
    /\ updateTimer = FALSE
    /\ events = {}
    /\ crashed = FALSE
    /\ needRefetch = FALSE
    /\ nDeploys = 0
    /\ nPushes = 0
    /\ saved = {}
    /\ discarded = FALSE

\* No server, no handler, no timer, no listener.
InitNoWatcher ==
    /\ timing = NoTiming
    /\ listener = NoListener
    /\ InitNoHandler

\* The state before main() reaches the tree: an empty source directory.
InitTree ==
    /\ files = NewFiles
    /\ fs = <<>>
    /\ clock = 1
    /\ pass = NoPass
    /\ rmap = NoRmap
    /\ nPass = 0
    /\ nExt = 0

InitProj ==
    /\ flows \in FlowsInputs
    /\ manifest = EmptyManifest
    /\ filesMap = NewFilesMap
    /\ projCalls = 0
    /\ projPrev = EmptyManifest
    /\ InitTree
    /\ InitNoWatcher

Project ==
    /\ projCalls < MaxCalls
    /\ LET r == Flows2ManifestFrom(flows, CallFilesMap)
       IN  /\ manifest' = r.manifest
           /\ filesMap' = r.map
    /\ projPrev' = manifest
    /\ projCalls' = projCalls + 1
    /\ UNCHANGED <<flows, treeVars, coordVars>>

NextProj == Project

SpecProj == InitProj /\ [][NextProj]_vars

-----------------------------------------------------------------------------
(* The tree reconciler and the reverse mapper, with a user editing the tree *)

Z == <<"z">>

FlowTab == Tab(<<"Flow">>)

\* The collections a pass is given: a leaf with one file, the same leaf with other
\* content, the leaf gone, a leaf with two files outside any folder, and two
\* leaves whose files collide.
ApplyInputs ==
    { WithIds(<<FlowTab>>),
      WithIds(<<FlowTab, Leaf("function", <<"a">>, "n1", [NoProps EXCEPT !.func = X])>>),
      WithIds(<<FlowTab, Leaf("function", <<"a">>, "n1", [NoProps EXCEPT !.func = Y])>>),
      WithIds(<<FlowTab, Leaf("function", <<"a">>, None,
                              [NoProps EXCEPT !.func = X, !.info = Y])>>),
      WithIds(<<FlowTab, Leaf("function", <<"a">>, "n1", [NoProps EXCEPT !.initialize = X]),
                Leaf("function", <<"a", ".initialize">>, "n1", [NoProps EXCEPT !.func = Y])>>) }

\* The paths a user writes to: a managed file of the manifest, a stale file with a
\* managed extension, a file with an unmanaged extension.
ExternalPaths ==
    { <<"Flow", "/", "a", ".js">>, <<"Flow", "/", "old", ".js">>,
      <<"Flow", "/", "notes", ".txt">> }

\* What the user writes there.
ExternalContents == {Z}

\* The tree and the manifest an earlier run of the program left behind: it applied
\* the manifest of some collection to an empty source directory at time 1 (the
\* collection of no document leaves the directory empty).
InitApply ==
    /\ \E fl \in ApplyInputs \cup {<<>>} :
          LET r == applyManifest(flows2Manifest(fl), EmptyManifest, <<>>, 1)
          IN  /\ flows = fl
              /\ manifest = IF r.threw THEN EmptyManifest ELSE r.manifest
              /\ fs = r.fs
    /\ files = NewFiles
    /\ clock = 1
    /\ pass = NoPass
    /\ rmap = NoRmap
    /\ nPass = 0
    /\ nExt = 0
    /\ filesMap = NewFilesMap
    /\ projCalls = 0
    /\ projPrev = EmptyManifest
    /\ InitNoWatcher

\* One applyManifest call and what the caller keeps of it.
Pass(newManifest, existingManifest, fl, again) ==
    LET r == applyManifest(newManifest, existingManifest, fs, clock)
    IN  /\ nPass + nExt < MaxOps
        /\ ~rmap.done
        /\ fs' = r.fs
        /\ manifest' = r.manifest
        /\ files' = IF r.threw THEN files ELSE r.files
        /\ flows' = fl
        /\ pass' = [done |-> TRUE, threw |-> r.threw, again |-> again, quiet |-> TRUE,
                    fsBefore |-> fs, existing |-> existingManifest, flows |-> fl,
                    stats |-> r.stats, rewritten |-> r.rewritten]
        /\ rmap' = NoRmap
        /\ nPass' = nPass + 1
        /\ UNCHANGED <<projVars, clock, nExt, coordVars>>

\* watcher.ts lines 105-109 (and 75-76): build the manifest of a collection and
\* apply it against a previous manifest: none, or the one the last pass left.
Reconcile ==
    \E fl \in ApplyInputs, existingManifest \in {EmptyManifest, manifest} :
        Pass(flows2Manifest(fl), existingManifest, fl, FALSE)

\* applyManifest called again with the manifest the last call left, which also
\* serves as the previous manifest.
ApplyAgain ==
    /\ pass.done /\ ~pass.threw
    /\ Pass(manifest, manifest, flows, pass.quiet)

\* A user creates or rewrites a file (and its directory, when missing).
ExternalWrite ==
    \E p \in ExternalPaths, c \in ExternalContents :
        /\ nPass + nExt < MaxOps
        /\ ~rmap.done
        /\ ~IsFile(fs, Dirname(p))
        /\ ~IsDirectory(fs, p)
        /\ fs' = WriteFileSync(IF ExistsSync(fs, Dirname(p)) THEN fs
                                ELSE MkdirSync(fs, Dirname(p)), p, c, clock)
        /\ nExt' = nExt + 1
        /\ pass' = [pass EXCEPT !.quiet = FALSE]
        /\ UNCHANGED <<flows, manifest, projVars, files, clock, rmap, nPass, coordVars>>

\* Time passes.  A tick is taken only once some file carries the current time:
\* an earlier one would change nothing that the program can observe.
Tick ==
    /\ clock < MaxTime
    /\ ~rmap.done
    /\ \E p \in DOMAIN fs : fs[p].kind = "file" /\ fs[p].mtime = clock
    /\ clock' = clock + 1
    /\ UNCHANGED <<flows, manifest, projVars, files, fs, pass, rmap, nPass, nExt, coordVars>>

\* The paths that may be reported as changed: the tracked ones and, for the
\* untracked ones, the user's stale file when it exists.
ChangedInputs ==
    SeqsUpTo(DOMAIN files \cup {p \in {<<"Flow", "/", "old", ".js">>} : IsFile(fs, p)},
             MaxChanged)

\* The collection without its leaves: what the server holds once another client
\* has deleted them.
LeavesDeleted(fl) == SelectSeq(fl, LAMBDA d : d.type \in DOMAIN flowFolderProperties)

\* The collection the handler holds when the timer fires: the one the manifest
\* was built from, or a newer one from the server (line 73), which replaces
\* the held collection while the manifest and the index stay as they were.
HeldFlows == {flows, LeavesDeleted(flows)}

\* watcher.ts lines 132-134: manifest2Flows on a list of changed paths, and
\* whether the count it returns makes the caller push.
ReverseMap ==
    \E changedFiles \in ChangedInputs, fl \in HeldFlows :
        LET r == manifest2Flows(fl, manifest, changedFiles, files, fs)
        IN  /\ pass.done /\ ~pass.threw
            /\ ~rmap.done
            /\ nPass + nExt < MaxOps
            /\ flows' = r.flows
            /\ manifest' = r.manifest
            /\ rmap' = [done |-> TRUE,
                        full |-> fl = flows /\ pass.quiet /\ \A p \in DOMAIN files :
                                     \E n \in 1..Len(changedFiles) : changedFiles[n] = p,
                        threw |-> r.threw, changed |-> r.changed,
                        pushed |-> ~r.threw /\ r.changed > 0,
                        paths |-> changedFiles, flowsBefore |-> fl,
                        manifestBefore |-> manifest]
            /\ UNCHANGED <<projVars, files, fs, clock, pass, nPass, nExt, coordVars>>

NextApply == Reconcile \/ ApplyAgain \/ ExternalWrite \/ Tick \/ ReverseMap

SpecApply == InitApply /\ [][NextApply]_vars

-----------------------------------------------------------------------------
(* watcher.ts: main() after startup, its two handlers and the Node-RED server *)

\* The collection the server holds when the watcher starts: one function node
\* below a tab.
StartFlows ==
    WithIds(<<FlowTab, Leaf("function", <<"a">>, "n1", [NoProps EXCEPT !.func = X])>>)

\* The collections other clients deploy: the same node with either of two bodies.
CoordInputs ==
    { StartFlows,
      WithIds(<<FlowTab, Leaf("function", <<"a">>, "n1", [NoProps EXCEPT !.func = Y])>>) }

\* The files the user edits while the watcher runs: the tracked file of the
\* node and a file the manifest does not hold.
EditPaths == { <<"Flow", "/", "a", ".js">>, <<"Flow", "/", "notes", ".txt">> }

\* The calls in flight are bags: two of them may carry the same values.
With(bag, call) == bag (+) SetToBag({call})
Without(bag, call) == bag (-) SetToBag({call})

\* Lines 60-120: the collection is fetched, its manifest is applied to an empty
\* source directory (no manifest.json) and saved when the pass modified
\* something (lines 111-116), the queue is empty and no timer runs.
Init ==
    /\ \E fl \in {StartFlows} :
          LET r == applyManifest(flows2Manifest(fl), EmptyManifest, <<>>, 1)
          IN  /\ flows = fl
              /\ remoteFlows = fl
              /\ manifest = r.manifest
              /\ files = r.files
              /\ fs = r.fs
              /\ saved = IF r.stats.totalModified > 0 THEN {r.manifest} ELSE {}
    /\ discarded = FALSE
    /\ timing = NoTiming
    /\ listener = NoListener
    /\ rev = 1
    /\ remoteRev = 1
    /\ clock = 1
    /\ notes = <<>>
    /\ fetches = EmptyBag
    /\ pushes = EmptyBag
    /\ changeQueue = <<>>
    /\ updateTimer = FALSE
    /\ events = {}
    /\ crashed = FALSE
    /\ needRefetch = FALSE
    /\ nDeploys = 0
    /\ nPushes = 0
    /\ pass = NoPass
    /\ rmap = NoRmap
    /\ nPass = 0
    /\ nExt = 0
    /\ filesMap = NewFilesMap
    /\ projCalls = 0
    /\ projPrev = EmptyManifest

\* A callback that takes no revision for the held one, and one that takes every
\* revision for it.
NeverSameRevision(noteRev, heldRev) == FALSE
AlwaysSameRevision(noteRev, heldRev) == TRUE

\* Line 69: rev === flowsResponse.rev
SameRevision(noteRev, heldRev) == noteRev = heldRev

\* The status the server gives a write: accepted when it carries the revision
\* the server holds, refused otherwise.
ServerStatus(callRev, currentRev) == IF callRev = currentRev THEN 200 ELSE 409

\* A postFlows that knows no conflict: every status but 200 is the same error.
postFlowsAnyError(status) == IF status = 200 THEN "ok" ELSE "error"

\* api.ts postFlows, lines 47-50: what the caller gets for a status.
postFlows(status) ==
    IF status = 200 THEN "ok" ELSE IF status = 409 THEN "conflict" ELSE "error"

\* Another client deploys a collection: the server takes a new revision and
\* publishes notification/runtime-deploy.
RemoteDeploy ==
    \E fl \in CoordInputs :
        /\ ~crashed
        /\ nDeploys + nExt + nPushes < MaxSteps
        /\ fl # remoteFlows
        /\ remoteFlows' = fl
        /\ remoteRev' = remoteRev + 1
        /\ notes' = Append(notes, remoteRev + 1)
        /\ nDeploys' = nDeploys + 1
        /\ UNCHANGED <<flows, manifest, projVars, sideVars, treeVars, rev, fetches, pushes,
                       changeQueue, updateTimer, events, crashed, needRefetch, nPushes,
                       saved, discarded>>

\* api.ts getFlows, lines 12-25: the server answers with what it holds (status
\* 200), or the request does not get through or the status is another.
getFlows(status) ==
    IF status = 200 THEN [stage |-> "answered", flows |-> remoteFlows, rev |-> remoteRev]
    ELSE [stage |-> "failed", flows |-> <<>>, rev |-> 0]

\* Lines 66-73: the listener's callback up to `await getFlows`.  The answer is
\* fixed when the request is made: a request that reaches the server later
\* gets what a later notification would have made the callback ask for.
OnNotification ==
    /\ ~crashed
    /\ notes # <<>>
    /\ notes' = Tail(notes)
    /\ IF SameRevision(Head(notes), rev)
       THEN /\ discarded' = TRUE
            /\ UNCHANGED fetches
       ELSE /\ fetches' = With(fetches, getFlows(200))
            /\ UNCHANGED discarded
    /\ UNCHANGED <<flows, manifest, projVars, sideVars, treeVars, rev, remoteFlows, remoteRev,
                   pushes, changeQueue, updateTimer, events, crashed, needRefetch,
                   nDeploys, nPushes, saved>>

\* The same callback when its getFlows request is going to fail.
OnNotificationLost ==
    /\ ~crashed
    /\ notes # <<>>
    /\ ~SameRevision(Head(notes), rev)
    /\ notes' = Tail(notes)
    /\ fetches' = With(fetches, getFlows(0))
    /\ UNCHANGED <<flows, manifest, projVars, sideVars, treeVars, rev, remoteFlows, remoteRev,
                   pushes, changeQueue, updateTimer, events, crashed, needRefetch,
                   nDeploys, nPushes, saved, discarded>>

\* The request of a postFlows call does not get through (fetch rejects), or the
\* answer has another status than 200 and 409.
TransportFail ==
    \E call \in BagToSet(pushes) :
        /\ ~crashed
        /\ call.stage = "sent"
        /\ pushes' = With(Without(pushes, call),
                          [call EXCEPT !.stage = "failed", !.result = postFlows(0)])
        /\ UNCHANGED <<flows, manifest, projVars, sideVars, treeVars, rev, remoteFlows, remoteRev,
                       notes, fetches, changeQueue, updateTimer, events, crashed,
                       needRefetch, nDeploys, nPushes, saved, discarded>>

\* Lines 73-76: the callback after `await getFlows`.  The held response is
\* replaced, the new manifest is applied against the manifest of the startup
\* and then dropped; the index of the startup stays in use and manifest.json is
\* left as it is.
FetchDone ==
    \E call \in BagToSet(fetches) :
        LET r == applyManifest(flows2Manifest(call.flows), manifest, fs, clock)
        IN  /\ ~crashed
            /\ call.stage = "answered"
            /\ fetches' = Without(fetches, call)
            /\ flows' = call.flows
            /\ rev' = call.rev
            /\ fs' = r.fs
            /\ events' = events \cup r.rewritten
            /\ crashed' = r.threw
            /\ needRefetch' = FALSE
            /\ UNCHANGED <<manifest, projVars, sideVars, files, clock, pass, rmap, nPass, nExt,
                           remoteFlows, remoteRev, notes, pushes, changeQueue,
                           updateTimer, nDeploys, nPushes, saved, discarded>>

\* Line 73 when getFlows throws: the callback is an async function that nothing
\* awaits and that catches nothing, so its promise is rejected and unhandled,
\* which ends the process.
FetchFailed ==
    \E call \in BagToSet(fetches) :
        /\ ~crashed
        /\ call.stage = "failed"
        /\ fetches' = Without(fetches, call)
        /\ crashed' = TRUE
        /\ UNCHANGED <<flows, manifest, projVars, sideVars, treeVars, rev, remoteFlows, remoteRev,
                       notes, pushes, changeQueue, updateTimer, events, needRefetch,
                       nDeploys, nPushes, saved, discarded>>

\* The user saves a file in the source directory, later than every write before;
\* the file watcher reports a change when the file was there before.
UserWrite ==
    \E p \in EditPaths, c \in ExternalContents :
        /\ ~crashed
        /\ nDeploys + nExt + nPushes < MaxSteps
        /\ IsDirectory(fs, Dirname(p))
        /\ clock' = clock + 1
        /\ fs' = WriteFileSync(fs, p, c, clock + 1)
        /\ events' = IF ExistsSync(fs, p) THEN events \cup {p} ELSE events
        /\ nExt' = nExt + 1
        /\ UNCHANGED <<flows, manifest, projVars, sideVars, files, pass, rmap, nPass, rev,
                       remoteFlows, remoteRev, notes, fetches, pushes, changeQueue,
                       updateTimer, crashed, needRefetch, nDeploys, nPushes,
                       saved, discarded>>

\* Lines 121-128: the 'change' callback, on the queue and the timer handle.
\* setTimeout replaces a pending timer.
ChangeCallback(p) ==
    IF p \in DOMAIN files
    THEN /\ changeQueue' = Append(changeQueue, p)
         /\ updateTimer' = TRUE
    ELSE UNCHANGED <<changeQueue, updateTimer>>

\* The callback, for a change the file watcher reports at some time.
OnChange ==
    \E p \in events :
        /\ ~crashed
        /\ events' = events \ {p}
        /\ ChangeCallback(p)
        /\ UNCHANGED <<flows, manifest, projVars, sideVars, treeVars, rev, remoteFlows,
                       remoteRev, notes, fetches, pushes, crashed, needRefetch, nDeploys,
                       nPushes, saved, discarded>>

\* Lines 129-140: the timer's callback up to `await postFlows`, on the held
\* documents, the manifest, the queue and the calls in flight.  When nothing
\* changed it runs to its end and clears the queue (line 149).
TimerCallback ==
    LET r == manifest2Flows(flows, manifest, changeQueue, files, fs)
    IN  /\ updateTimer' = FALSE
        /\ IF changeQueue = <<>>
           THEN UNCHANGED <<flows, manifest, changeQueue, pushes, crashed, nPushes>>
           ELSE /\ flows' = r.flows
                /\ manifest' = r.manifest
                /\ crashed' = r.threw
                /\ IF ~r.threw /\ r.changed > 0
                   THEN /\ pushes' = With(pushes,
                                [stage |-> "sent", flows |-> r.flows, rev |-> rev,
                                 result |-> "", newRev |-> 0, seen |-> 0, left |-> 0,
                                 kept |-> TRUE, afterConflict |-> needRefetch])
                        /\ nPushes' = nPushes + 1
                        /\ UNCHANGED changeQueue
                   ELSE /\ changeQueue' = IF r.threw THEN changeQueue ELSE <<>>
                        /\ UNCHANGED <<pushes, nPushes>>

\* The timer fires, at some time after the last change.
TimerFire ==
    /\ ~crashed
    /\ updateTimer
    /\ nDeploys + nExt + nPushes < MaxSteps
    /\ TimerCallback
    /\ UNCHANGED <<projVars, sideVars, treeVars, rev, remoteFlows, remoteRev, notes,
                   fetches, events, needRefetch, nDeploys, saved, discarded>>

\* api.ts postFlows, lines 37-51, as the server answers it: a write with the
\* revision the server holds is accepted, gets a new revision and is published
\* to the listeners; any other gets 409.  `seen`, `left` and `kept` record what
\* the server held before and after.
ServePush ==
    \E call \in BagToSet(pushes) :
        LET status == ServerStatus(call.rev, remoteRev)
            answer == [call EXCEPT !.stage = "answered", !.result = postFlows(status),
                                   !.seen = remoteRev]
        IN  /\ ~crashed
            /\ call.stage = "sent"
            /\ IF status = 200
               THEN /\ remoteFlows' = call.flows
                    /\ remoteRev' = remoteRev + 1
                    /\ notes' = Append(notes, remoteRev + 1)
                    /\ pushes' = With(Without(pushes, call),
                                      [answer EXCEPT !.newRev = remoteRev + 1,
                                                     !.left = remoteRev + 1,
                                                     !.kept = (call.flows = remoteFlows)])
               ELSE /\ pushes' = With(Without(pushes, call),
                                      [answer EXCEPT !.left = remoteRev, !.kept = TRUE])
                    /\ UNCHANGED <<remoteFlows, remoteRev, notes>>
            /\ UNCHANGED <<flows, manifest, projVars, sideVars, treeVars, rev, fetches, changeQueue,
                           updateTimer, events, crashed, needRefetch, nDeploys, nPushes,
                           saved, discarded>>

\* Lines 140-149: the timer's callback after `await postFlows`.  The revision of
\* the answer is stored in the response held now; an error is logged, whatever
\* it is; the whole queue is cleared.
PostCallback(call) ==
    /\ call.stage \in {"answered", "failed"}
    /\ pushes' = Without(pushes, call)
    /\ rev' = IF call.result = "ok" THEN call.newRev ELSE rev
    /\ needRefetch' = IF call.result = "conflict" THEN TRUE ELSE needRefetch
    /\ changeQueue' = <<>>

PushDone ==
    \E call \in BagToSet(pushes) :
        /\ ~crashed
        /\ PostCallback(call)
        /\ UNCHANGED <<flows, manifest, projVars, sideVars, treeVars, remoteFlows,
                       remoteRev, notes, fetches, updateTimer, events, crashed, nDeploys,
                       nPushes, saved, discarded>>

Next ==
    \/ RemoteDeploy \/ OnNotification \/ FetchDone
    \/ UserWrite \/ OnChange \/ TimerFire \/ ServePush \/ PushDone

Spec == Init /\ [][Next]_vars

\* The same program when requests may fail.
NextFail == Next \/ OnNotificationLost \/ FetchFailed \/ TransportFail

SpecFail == Init /\ [][NextFail]_vars

-----------------------------------------------------------------------------
(* watcher.ts lines 119-151 against the clock: the debounce of change events *)

\* config.fileChangeDelay (types.ts line 9): not set, or a number of milliseconds.
ConfigDelays == { {}, {500}, {1000}, {2000} }

\* A timeout that waits for the configured delay.
ConfiguredDelay(delay) == IF delay = {} THEN 1000 ELSE CHOOSE d \in delay : TRUE

\* Line 150: the delay given to setTimeout.
TimerDelay(delay) == 1000

\* Line 127: if (updateTimer) clearTimeout(updateTimer).  The handle is the
\* timeout set last.
ClearTimeout(pending, handle) ==
    IF handle /\ pending # <<>> THEN SubSeq(pending, 1, Len(pending) - 1) ELSE pending

\* Line 128: setTimeout(..., delay), as the time at which the timeout is due.
SetTimeout(pending, due) == Append(pending, due)

\* The watcher has started (Init) with some configuration, at time 0.
InitTimer ==
    /\ \E fl \in {StartFlows} :
          LET r == applyManifest(flows2Manifest(fl), EmptyManifest, <<>>, 1)
          IN  /\ flows = fl
              /\ remoteFlows = fl
              /\ manifest = r.manifest
              /\ files = r.files
              /\ fs = r.fs
              /\ saved = IF r.stats.totalModified > 0 THEN {r.manifest} ELSE {}
    /\ \E delay \in ConfigDelays : timing = [NoTiming EXCEPT !.delay = delay]
    /\ listener = NoListener
    /\ discarded = FALSE
    /\ rev = 1
    /\ remoteRev = 1
    /\ clock = 1
    /\ notes = <<>>
    /\ fetches = EmptyBag
    /\ pushes = EmptyBag
    /\ changeQueue = <<>>
    /\ updateTimer = FALSE
    /\ events = {}
    /\ crashed = FALSE
    /\ needRefetch = FALSE
    /\ nDeploys = 0
    /\ nPushes = 0
    /\ pass = NoPass
    /\ rmap = NoRmap
    /\ nPass = 0
    /\ nExt = 0
    /\ filesMap = NewFilesMap
    /\ projCalls = 0
    /\ projPrev = EmptyManifest

\* The file watcher reports a change of a file now: lines 121-128.  `times` holds
\* the times of the events in the queue, `log` every event.
Change ==
    \E p \in EditPaths :
        /\ ~crashed
        /\ Len(timing.log) < MaxChanges
        /\ ChangeCallback(p)
        /\ timing' =
              IF p \in DOMAIN files
              THEN [timing EXCEPT
                      !.pending = SetTimeout(ClearTimeout(@, updateTimer),
                                             timing.now + TimerDelay(timing.delay)),
                      !.times = Append(@, timing.now),
                      !.log = Append(@, [at |-> timing.now, tracked |-> TRUE])]
              ELSE [timing EXCEPT !.log = Append(@, [at |-> timing.now, tracked |-> FALSE])]
        /\ UNCHANGED <<flows, manifest, projVars, listener, treeVars, rev, remoteFlows,
                       remoteRev, notes, fetches, pushes, events, crashed, needRefetch,
                       nDeploys, nPushes, saved, discarded>>

\* The time of the last change event on a tracked path (-1: there was none).
LastChange ==
    LET tracked == {i \in 1..Len(timing.log) : timing.log[i].tracked}
    IN  IF tracked = {} THEN -1
        ELSE timing.log[CHOOSE i \in tracked : \A j \in tracked : j <= i].at

\* A timeout is due: lines 129-140.  `batches` records every call of
\* manifest2Flows: when, with the events of which times, how long after the
\* last change.
Fire ==
    \E i \in 1..Len(timing.pending) :
        /\ ~crashed
        /\ timing.pending[i] <= timing.now
        /\ TimerCallback
        /\ timing' = [timing EXCEPT
                        !.pending = SubSeq(@, 1, i - 1) \o SubSeq(@, i + 1, Len(@)),
                        !.times = IF changeQueue' = <<>> THEN <<>> ELSE @,
                        !.batches = IF changeQueue = <<>> THEN @
                                    ELSE Append(@, [at |-> timing.now,
                                                    times |-> timing.times,
                                                    last |-> LastChange])]
        /\ UNCHANGED <<projVars, listener, treeVars, rev, remoteFlows, remoteRev, notes,
                       fetches, events, needRefetch, nDeploys, saved, discarded>>

\* Lines 140-149, when the answer of postFlows has come.
Posted ==
    \E call \in BagToSet(pushes) :
        /\ ~crashed
        /\ PostCallback(call)
        /\ timing' = [timing EXCEPT !.times = <<>>]
        /\ UNCHANGED <<flows, manifest, projVars, listener, treeVars, remoteFlows,
                       remoteRev, notes, fetches, updateTimer, events, crashed, nDeploys,
                       nPushes, saved, discarded>>

\* Half a second passes.  A timeout that is due fires before time moves on.
Advance ==
    /\ ~crashed
    /\ timing.now < 500 * MaxTicks
    /\ \A i \in 1..Len(timing.pending) : timing.pending[i] > timing.now
    /\ timing' = [timing EXCEPT !.now = @ + 500]
    /\ UNCHANGED <<flows, manifest, projVars, listener, treeVars, coordVarsButSide>>

NextTimer == Change \/ Fire \/ ServePush \/ Posted \/ Advance

SpecTimer == InitTimer /\ [][NextTimer]_vars

-----------------------------------------------------------------------------
(* api.ts: listenToFlowsChange, the websocket and its reconnects *)

retryDelay == 1000
maxRetryDelay == 30000

Min(a, b) == IF a <= b THEN a ELSE b

\* Line 120: delay = Math.min(delay * 2, maxRetryDelay)
BackOff(delay) == Min(delay * 2, maxRetryDelay)

\* config.nodeRedUrl, written with or without a trailing slash.
ConfigUrls == { <<"https://node-red.mydomain.lan">>, <<"https://node-red.mydomain.lan", "/">> }

\* Line 63: nodeRedUrl.endsWith('/') ? `${nodeRedUrl}comms` : `${nodeRedUrl}/comms`
CommsUrl(nodeRedUrl) ==
    IF nodeRedUrl # <<>> /\ nodeRedUrl[Len(nodeRedUrl)] = "/"
    THEN nodeRedUrl \o <<"comms">>
    ELSE nodeRedUrl \o <<"/", "comms">>

\* authToken: config.bearerToken || null (watcher.ts line 66).
Tokens == { {}, {"token"} }

\* Line 66: the topics the listener subscribes to.
topics == {"notification/runtime-deploy"}

\* The topics the server publishes events of.
ServerTopics == {"notification/runtime-deploy", "notification/node/added"}

\* The messages of the server, as the arrays the handler iterates over (lines
\* 93-94): the reply to an auth message, and one or two events.
AuthReply(reply) == << [auth |-> reply, topic |-> ""] >>
EventMessages ==
    { [i \in 1..n |-> [auth |-> "", topic |-> ts[i]]] :
        n \in 1..2, ts \in [1..2 -> ServerTopics] }

\* What one connection did, in order: `trace` holds the opening, the messages
\* sent and received and the calls of the callback.
Did(kind, what) == [kind |-> kind, what |-> what]

\* ws.send on the open socket: the message is on its way to the server.
Send(st, message) ==
    [st EXCEPT !.sent = Append(@, message), !.trace = Append(@, Did("send", message))]

\* Lines 74-76: subscribe() sends one message per topic (there is one topic).
Subscribe(st) == Send(st, "subscribe")

\* A handler that subscribes on every reply to the auth message.
SubscribesOnAnyReply(auth) == TRUE

\* Line 100: event.auth === 'ok'
SubscribesOn(auth) == auth = "ok"

\* Lines 97-110: the loop over the events of one message.
RECURSIVE ProcessEvents(_, _, _)
ProcessEvents(message, i, st) ==
    IF i > Len(message) THEN st
    ELSE LET event == message[i]
             got == [st EXCEPT !.trace = Append(@, Did("recv",
                        IF event.auth # "" THEN event.auth ELSE event.topic))]
         IN  ProcessEvents(message, i + 1,
                 IF event.auth # ""
                 THEN IF SubscribesOn(event.auth) THEN Subscribe(got) ELSE got
                 ELSE IF event.topic \in topics
                      THEN [got EXCEPT !.trace = Append(@, Did("call", event.topic))]
                      ELSE got)

\* Lines 61-71: main() has called listenToFlowsChange with the configured URL
\* (`base`); the websocket is being opened to `url`, the value line 63 gave the
\* parameter nodeRedUrl, and `delay` is the delay of this call.
InitListen ==
    /\ flows = <<>>
    /\ manifest = EmptyManifest
    /\ filesMap = NewFilesMap
    /\ projCalls = 0
    /\ projPrev = EmptyManifest
    /\ InitTree
    /\ InitNoHandler
    /\ timing = NoTiming
    /\ \E nodeRedUrl \in ConfigUrls, authToken \in Tokens :
          listener = [NoListener EXCEPT !.state = "connecting", !.delay = retryDelay,
                                        !.base = nodeRedUrl, !.url = CommsUrl(nodeRedUrl),
                                        !.token = authToken]

\* Lines 117-121: the 'close' handler.  `waits` records the delay every
\* reconnect was given and how many closes in a row it follows.  The socket is
\* gone, and with it the messages on their way and what the connection did.
CloseHandler ==
    /\ Len(listener.waits) < MaxRetries
    /\ listener' = [listener EXCEPT
                      !.state = "waiting",
                      !.waits = Append(@, [n |-> listener.failures + 1,
                                           wait |-> listener.delay]),
                      !.delay = BackOff(@),
                      !.failures = @ + 1,
                      !.sent = <<>>, !.inbox = <<>>, !.refused = FALSE, !.trace = <<>>]
    /\ UNCHANGED <<flows, manifest, projVars, treeVars, coordVarsButSide, timing>>

\* Lines 78-86: 'open'.  The token is sent when there is one, the subscription
\* otherwise.
Opened ==
    /\ listener.state = "connecting"
    /\ LET open == [listener EXCEPT !.state = "open", !.delay = retryDelay, !.failures = 0,
                                    !.trace = Append(@, Did("open", ""))]
       IN  listener' = IF listener.token # {} THEN Send(open, "auth") ELSE Subscribe(open)
    /\ UNCHANGED <<flows, manifest, projVars, treeVars, coordVarsButSide, timing>>

\* The server takes the next message of the client.  It answers an auth message
\* with ok or with fail, and after fail it closes the connection: it reads and
\* sends nothing more.  A subscription gets no answer.
ServerReads ==
    /\ listener.state = "open"
    /\ ~listener.refused
    /\ listener.sent # <<>>
    /\ \E reply \in {"ok", "fail"} :
          listener' =
              IF Head(listener.sent) = "auth"
              THEN [listener EXCEPT !.sent = Tail(@),
                                    !.inbox = Append(@, AuthReply(reply)),
                                    !.refused = (reply = "fail")]
              ELSE [listener EXCEPT !.sent = Tail(@)]
    /\ UNCHANGED <<flows, manifest, projVars, treeVars, coordVarsButSide, timing>>

\* The server sends a message of one or two events.
ServerPublishes ==
    \E message \in EventMessages :
        /\ listener.state = "open"
        /\ ~listener.refused
        /\ listener.published < MaxMessages
        /\ listener' = [listener EXCEPT !.inbox = Append(@, message),
                                        !.published = @ + 1]
        /\ UNCHANGED <<flows, manifest, projVars, treeVars, coordVarsButSide, timing>>

\* Lines 90-114: 'message', for the oldest message on its way to the client.
OnMessage ==
    /\ listener.state = "open"
    /\ listener.inbox # <<>>
    /\ listener' = ProcessEvents(Head(listener.inbox), 1,
                                 [listener EXCEPT !.inbox = Tail(@)])
    /\ UNCHANGED <<flows, manifest, projVars, treeVars, coordVarsButSide, timing>>

\* Lines 123-127 and 117-121: the connection cannot be made; 'error' closes the
\* socket, which emits 'close'.
ConnectFails ==
    /\ listener.state = "connecting"
    /\ CloseHandler

\* Lines 117-121: an open connection is closed.
Dropped ==
    /\ listener.state = "open"
    /\ CloseHandler

\* Line 119: the timeout calls listenToFlowsChange again with the value the
\* parameter nodeRedUrl holds since line 63; `delay` of the new call is a new
\* variable (line 71) and the websocket is a new one (line 64).
Reconnect ==
    /\ listener.state = "waiting"
    /\ listener' = [listener EXCEPT !.state = "connecting", !.delay = retryDelay,
                                    !.url = CommsUrl(listener.url)]
    /\ UNCHANGED <<flows, manifest, projVars, treeVars, coordVarsButSide, timing>>

NextListen ==
    \/ Opened \/ ConnectFails \/ Dropped \/ Reconnect
    \/ ServerReads \/ ServerPublishes \/ OnMessage

SpecListen == InitListen /\ [][NextListen]_vars

-----------------------------------------------------------------------------
(* Properties of the watcher *)

\* C9: at no time are two reconciliation passes active at once, and at most one
\* push is in flight.  A remote pass is active from `await getFlows` to the end of
\* applyManifest, a local pass from manifest2Flows to the end of the callback.
C9_SingleWriter == BagCardinality(fetches) + BagCardinality(pushes) <= 1

\* C10: after a push failed with a conflict no local batch is pushed until a
\* remote pass has run, and so none is pushed with the stale revision.
C10_NoPushAfterConflict ==
    \A call \in BagToSet(pushes) : ~call.afterConflict

\* A step of the notification callback: the oldest notification is taken.
NotificationTaken == notes # <<>> /\ notes' = Tail(notes)

\* C11: a notification that carries the held revision is discarded: no getFlows
\* call is started, nothing is written, and the documents, the revision, the
\* manifest, the tree and manifest.json stay as they are.
C11_SameRevDiscarded ==
    [][(NotificationTaken /\ Head(notes) = rev) =>
          /\ fetches' = fetches
          /\ UNCHANGED <<flows, rev, manifest, files, fs, saved, pushes>>]_vars

\* A notification was discarded and no call is in flight.
C11_Witness == discarded /\ fetches = EmptyBag /\ pushes = EmptyBag

\* C12: a notification that carries another revision than the held one starts a
\* getFlows call, and when the callback has run to its end the held response
\* is the fetched one (its revision included) and the tree is the one
\* applyManifest makes of the manifest built from the fetched documents.
C12_DifferentRevFetched ==
    [][/\ (NotificationTaken /\ Head(notes) # rev) =>
              BagCardinality(fetches') = BagCardinality(fetches) + 1
       /\ \A call \in BagToSet(fetches) :
              (call.stage = "answered" /\ fetches' = Without(fetches, call)) =>
                  LET r == applyManifest(flows2Manifest(call.flows), manifest, fs, clock)
                  IN  ~r.threw =>
                          /\ rev' = call.rev
                          /\ flows' = call.flows
                          /\ fs' = r.fs]_vars

\* A remote pass has run to its end after a deploy of another client: no push
\* was made, so only the pass can have moved the held revision.
C12_Witness ==
    /\ nPushes = 0
    /\ rev > 1
    /\ rev = remoteRev
    /\ flows = remoteFlows
    /\ fetches = EmptyBag

\* C16: manifest.json is written exactly when a pass reports totalModified > 0:
\* a remote pass that reports more is followed by saving the manifest it
\* applied, one that reports 0 leaves the file alone.
C16_SavedWhenModified ==
    [][\A call \in BagToSet(fetches) :
          (call.stage = "answered" /\ fetches' = Without(fetches, call)) =>
              LET r == applyManifest(flows2Manifest(call.flows), manifest, fs, clock)
              IN  \/ r.threw
                  \/ r.stats.totalModified > 0 /\ saved' = {r.manifest}
                  \/ r.stats.totalModified = 0 /\ saved' = saved]_vars

\* C17: a getFlows or postFlows call that fails ends only its own pass: the
\* process keeps running and the held revision stays as it is.
C17_SurvivesTransportFailure ==
    [][/\ \A call \in BagToSet(fetches) :
              (call.stage = "failed" /\ fetches' = Without(fetches, call)) =>
                  ~crashed' /\ rev' = rev
       /\ \A call \in BagToSet(pushes) :
              (call.stage = "failed" /\ pushes' = Without(pushes, call)) =>
                  ~crashed' /\ rev' = rev]_vars

\* The part of C17 that is about postFlows.
C17_PushFailureSurvived ==
    [][\A call \in BagToSet(pushes) :
          (call.stage = "failed" /\ pushes' = Without(pushes, call)) =>
              ~crashed' /\ rev' = rev]_vars

\* C24: once every notification has been processed and every fetch has
\* completed, with no push made by the watcher, the held collection and
\* revision are the ones the server holds, in whatever order the fetches
\* completed.
C24_LatestRevisionHeld ==
    (/\ notes = <<>>
     /\ fetches = EmptyBag
     /\ nPushes = 0
     /\ ~crashed) => (rev = remoteRev /\ flows = remoteFlows)

\* C25: the revision a successful push returned is recorded for the collection
\* that was pushed: when the answer is taken, the held collection is still the
\* pushed one and not one a fetch put in place meanwhile.
C25_PushRevisionOfPushedFlows ==
    [][\A call \in BagToSet(pushes) :
          (/\ call.stage = "answered"
           /\ call.result = "ok"
           /\ pushes' = Without(pushes, call)) => flows = call.flows]_vars

\* C26: when a pass started by a notification completes, the manifest and the
\* path index the watcher goes on with are the ones that pass built and applied.
C26_LiveManifestOfLastPass ==
    [][\A call \in BagToSet(fetches) :
          (/\ call.stage = "answered"
           /\ fetches' = Without(fetches, call)
           /\ ~crashed')
          => LET r == applyManifest(flows2Manifest(call.flows), manifest, fs, clock)
             IN  manifest' = r.manifest /\ files' = r.files]_vars

Window == TimerDelay(timing.delay)

\* The times of the change events on tracked paths.
TrackedTimes == {timing.log[i].at : i \in {j \in 1..Len(timing.log) : timing.log[j].tracked}}

\* The batches an event of time t was handed to the reverse mapper in.
BatchesOf(t) ==
    {k \in 1..Len(timing.batches) :
        \E i \in 1..Len(timing.batches[k].times) : timing.batches[k].times[i] = t}

\* C13, first part: every change event cancels the pending timer and starts a
\* new one, so at most one timer is pending.
C13_OneTimer == Len(timing.pending) <= 1

\* C13, second part: a batch is handed to the reverse mapper only when a full
\* quiet window has passed since the last change event.
C13_QuietBefore ==
    \A k \in 1..Len(timing.batches) :
        timing.batches[k].at >= timing.batches[k].last + Window

\* C13, third part: the events of a burst (gaps shorter than the window) go to
\* the reverse mapper together, in exactly one batch (once the window after the
\* last event is over), and no batch makes more than one push.
C13_OneBatchPerBurst ==
    /\ \A t \in TrackedTimes : Cardinality(BatchesOf(t)) <= 1
    /\ \A t \in TrackedTimes :
          timing.now > LastChange + Window => Cardinality(BatchesOf(t)) = 1
    /\ \A t1, t2 \in TrackedTimes :
          (t1 <= t2 /\ t2 - t1 < Window /\ BatchesOf(t2) # {}) => BatchesOf(t1) = BatchesOf(t2)
    /\ nPushes <= Len(timing.batches)

\* C23: no change event on a tracked path is lost: each one is still in the
\* queue or was handed to the reverse mapper in some batch, so clearing the
\* queue takes out only what a batch processed.
C23_NoChangeLost ==
    \A t \in TrackedTimes :
        \/ BatchesOf(t) # {}
        \/ \E i \in 1..Len(timing.times) : timing.times[i] = t

\* C13: debounce of the change events.
C13_Debounce == C13_OneTimer /\ C13_QuietBefore /\ C13_OneBatchPerBurst

\* C14: a batch fires the configured fileChangeDelay (1000 ms when not set)
\* after the last change event.
C14_ConfiguredDelay ==
    \A k \in 1..Len(timing.batches) :
        timing.batches[k].at = timing.batches[k].last + ConfiguredDelay(timing.delay)

\* C15: the n-th reconnect in a row (no connection made in between) waits
\* min(1000 * 2^(n-1), 30000) ms, and the first one after a connection waits
\* 1000 ms again.
C15_Backoff ==
    \A k \in 1..Len(listener.waits) :
        listener.waits[k].wait = Min(retryDelay * 2 ^ (listener.waits[k].n - 1), maxRetryDelay)

\* C29: every connection the listener opens, the first one and every reconnect,
\* goes to the comms endpoint of the configured URL.
C29_SameEndpoint ==
    listener.state # "none" => listener.url = CommsUrl(listener.base)

\* The positions of the connection's trace where something of a kind was done.
Where(kind, what) ==
    {i \in 1..Len(listener.trace) : listener.trace[i] = Did(kind, what)}

\* C31: on every connection, with a token the opening is followed by the auth
\* message, a subscription is sent only after the reply ok has been received
\* and never after the reply fail; without a token the opening is followed by
\* the subscription; and the callback is called only for events of a
\* subscribed topic.
C31_AuthBeforeSubscribe ==
    /\ listener.token # {} =>
          /\ \A i \in Where("open", "") :
                i < Len(listener.trace) /\ listener.trace[i + 1] = Did("send", "auth")
          /\ \A i \in Where("send", "subscribe") : \E j \in Where("recv", "ok") : j < i
          /\ \A i \in Where("send", "subscribe") : \A j \in Where("recv", "fail") : i < j
    /\ listener.token = {} =>
          \A i \in Where("open", "") :
              i < Len(listener.trace) /\ listener.trace[i + 1] = Did("send", "subscribe")
    /\ \A i \in 1..Len(listener.trace) :
          listener.trace[i].kind = "call" =>
              /\ listener.trace[i].what \in {"notification/runtime-deploy"}
              /\ i > 1 /\ listener.trace[i - 1] = Did("recv", listener.trace[i].what)

\* With a token: the reply ok came, the subscription followed, an event of the
\* subscribed topic reached the callback and one of another topic did not.
C31_Witness ==
    /\ listener.token # {}
    /\ Where("recv", "ok") # {}
    /\ Where("send", "subscribe") # {}
    /\ Where("call", "notification/runtime-deploy") # {}
    /\ \E i \in Where("recv", "notification/node/added") :
          i = Len(listener.trace) \/ listener.trace[i + 1].kind # "call"

\* With a token: the reply fail came and was taken.
AuthRefused == listener.token # {} /\ Where("recv", "fail") # {}

\* Without a token: the subscription was sent on open.
SubscribedOnOpen == listener.token = {} /\ Where("send", "subscribe") # {}

-----------------------------------------------------------------------------
(* Properties of the projection *)

\* The path of a ManifestFile below the source path.
FilePathOf(item, file) == PathJoin(item.folderName, file.name)

\* All (item, file) positions of a manifest.
FilePositions(m) ==
    {<<i, j>> : i \in 1..Len(m.files), j \in 1..5} \cap
    {q \in (1..Len(m.files)) \X (1..5) : q[2] <= Len(m.files[q[1]].files)}

FolderNamesUnique(m) ==
    \A i, j \in 1..Len(m.folders) :
        i # j => m.folders[i].folderName # m.folders[j].folderName

FilePathsUnique(m) ==
    \A p, q \in FilePositions(m) :
        p # q => FilePathOf(m.files[p[1]], m.files[p[1]].files[p[2]])
                 # FilePathOf(m.files[q[1]], m.files[q[1]].files[q[2]])

\* C6 (invariant I1): in every manifest flows2Manifest builds, no two folders have
\* the same folderName and no two ManifestFiles resolve to the same path.
C6_NamesUnique ==
    projCalls > 0 => FolderNamesUnique(manifest) /\ FilePathsUnique(manifest)

-----------------------------------------------------------------------------
(* Properties of the tree reconciler *)

\* The extensions the spec calls managed, as path.extname returns them.
ManagedExtnames == {".js", ".vue", ".md"}

\* The last applyManifest call returned normally and the tree and the manifest are
\* still as it left them.
PassReturned == pass.done /\ ~pass.threw /\ pass.quiet /\ ~rmap.done

\* C1: after applyManifest returns normally, every ManifestFile of the new manifest
\* is on disk with the content of its snapshot (also a file whose mtime equals the
\* recorded one and whose content differs).  Stated for manifests whose paths are
\* distinct, where one file cannot overwrite another.
C1_FilesMatchManifest ==
    (PassReturned /\ FilePathsUnique(manifest)) =>
        \A q \in FilePositions(manifest) :
            LET filePath == FilePathOf(manifest.files[q[1]], manifest.files[q[1]].files[q[2]])
            IN  /\ IsFile(fs, filePath)
                /\ fs[filePath].content = manifest.files[q[1]].files[q[2]].content

\* C2: after applyManifest returns, no regular file below sourcePath has a managed
\* extension unless the path index of that pass holds its path.
C2_NoStaleManagedFile ==
    PassReturned =>
        \A p \in DOMAIN fs :
            (IsFile(fs, p) /\ Extname(Basename(p)) \in ManagedExtnames) => p \in DOMAIN files

\* C3: no applyManifest pass deletes or rewrites a file whose extension is outside
\* the managed set, whatever the new and the previous manifest.
C3_UnmanagedUntouched ==
    (pass.done /\ pass.quiet) =>
        \A p \in DOMAIN pass.fsBefore :
            (IsFile(pass.fsBefore, p) /\ Extname(Basename(p)) \notin ManagedExtnames)
                => (p \in DOMAIN fs /\ fs[p] = pass.fsBefore[p])

\* A pass that wrote to the folder "Flow" of its manifest while notes.txt, which no
\* manifest names, lay in it.
C3_Witness ==
    /\ PassReturned
    /\ IsFile(pass.fsBefore, <<"Flow", "/", "notes", ".txt">>)
    /\ \E i \in 1..Len(manifest.folders) : manifest.folders[i].folderName = <<"Flow">>
    /\ <<"Flow", "/", "notes", ".txt">> \notin DOMAIN files
    /\ pass.stats.totalModified > 0

\* C27: after applyManifest returns normally, every ManifestFile of the applied
\* manifest carries the mtime its file has on disk, the files the pass did not
\* write included.
C27_ModifiedTimeCurrent ==
    PassReturned =>
        \A q \in FilePositions(manifest) :
            LET manifestFile == manifest.files[q[1]].files[q[2]]
                filePath == FilePathOf(manifest.files[q[1]], manifestFile)
            IN  IsFile(fs, filePath) => manifestFile.modifiedTime = {fs[filePath].mtime}

PassCreatedFolderOnly ==
    /\ pass.done /\ ~pass.threw
    /\ pass.stats.foldersCreated > 0
    /\ pass.stats.totalModified = pass.stats.foldersCreated

\* C4: a second applyManifest of the same manifest, the manifest left by the first
\* call serving as the previous one and nothing changing the tree in between,
\* writes and deletes nothing and reports totalModified = 0.
C4_SecondPassIdle ==
    (pass.done /\ pass.again /\ ~pass.threw) =>
        /\ pass.stats.totalModified = 0
        /\ pass.quiet => fs = pass.fsBefore

\* C5: flows2Manifest, applyManifest, then manifest2Flows over every path of the
\* index, with no edit from outside in between, leaves every populated role field
\* of every document equal to its original content.
C5_RoundTrip ==
    (rmap.done /\ rmap.full /\ ~rmap.threw) =>
        \A d \in 1..Len(pass.flows) : \A role \in Roles :
            HasContent(pass.flows[d], role) =>
                flows[d].props[role] = pass.flows[d].props[role]

-----------------------------------------------------------------------------
(* Properties of the naming *)

\* The documents before position i that share the scope and the sanitized raw name
\* of document i: folders live in the global scope, leaves in their folder.
EarlierFolders(fl, i) ==
    {j \in 1..(i - 1) :
        /\ IsFolderItem(fl[j])
        /\ ReplaceSeparators(FolderRawName(fl[j])) = ReplaceSeparators(FolderRawName(fl[i]))}

EarlierLeaves(fl, folders, i) ==
    {j \in 1..(i - 1) :
        /\ fl[j].type \in supportedFlowFileTypes
        /\ FolderNameOf(folders, fl[j]) = FolderNameOf(folders, fl[i])
        /\ ReplaceSeparators(fl[j].name) = ReplaceSeparators(fl[i].name)}

\* N for the first document of a name, N + " (k)" for the k-th later one.
Suffixed(n, k) == IF k = 0 THEN n ELSE Append(n, Suffix(k))

FolderNamesInOrder(fl, m) ==
    \A f \in 1..Len(m.folders) :
        \A i \in 1..Len(fl) :
            fl[i].id = m.folders[f].id =>
                LET n == ReplaceSeparators(FolderRawName(fl[i]))
                    k == Cardinality(EarlierFolders(fl, i))
                         + (IF n = <<"default">> THEN 1 ELSE 0)
                IN  m.folders[f].folderName = Suffixed(n, k)

BaseNamesInOrder(fl, m) ==
    \A f \in 1..Len(m.files) :
        \A i \in 1..Len(fl) :
            fl[i].id = m.files[f].id =>
                m.files[f].baseFileName =
                    Suffixed(ReplaceSeparators(fl[i].name),
                             Cardinality(EarlierLeaves(fl, m.folders, i)))

\* C7: within one scope the first document of sanitized raw name N keeps N and the
\* k-th later one receives N + " (k)"; "default" counts as seen once globally.
C7_SuffixInOrder ==
    projCalls > 0 => FolderNamesInOrder(flows, manifest) /\ BaseNamesInOrder(flows, manifest)

fl_named(d) == d.type \in supportedFlowFileTypes => d.name # <<>>

\* C7 restricted to collections whose leaves all have a name.
C7_SuffixInOrderNamed ==
    (projCalls > 0 /\ \A i \in 1..Len(flows) :
                         fl_named(flows[i]))
        => FolderNamesInOrder(flows, manifest) /\ BaseNamesInOrder(flows, manifest)

ItemsAt(p) ==
    {k \in 1..Len(manifest.files) : p \in DOMAIN files /\ manifest.files[k].id = files[p]}

\* The files of an item that carry the path's file name.
FilesAt(p, k) ==
    {j \in 1..Len(manifest.files[k].files) : manifest.files[k].files[j].name = Basename(p)}

\* The documents of the collection that the path index gives for a path.
DocsAt(p) == {d \in 1..Len(flows) : p \in DOMAIN files /\ flows[d].id = files[p]}

\* The index maps the path to an item that holds a file of that name and whose
\* document is in the collection.
Mapped(p) == DocsAt(p) # {} /\ \E k \in ItemsAt(p) : FilesAt(p, k) # {}

\* The mapped paths among those handed to manifest2Flows.
MappedPaths == {p \in {rmap.paths[n] : n \in 1..Len(rmap.paths)} : Mapped(p)}

ReverseSkippedDeleted ==
    /\ rmap.done
    /\ \E n \in 1..Len(rmap.paths) :
          /\ rmap.paths[n] \in DOMAIN files
          /\ DocsAt(rmap.paths[n]) = {}

C22_ApplyCompletes == pass.done => ~pass.threw

\* The collection without its i-th document.
WithoutDoc(fl, i) == SubSeq(fl, 1, i - 1) \o SubSeq(fl, i + 1, Len(fl))

\* C28: a supported leaf document none of whose role fields has content leaves
\* no trace in the projection: the manifest of the collection is the manifest
\* of the collection without that document.
C28_EmptyDocumentOmitted ==
    projCalls > 0 =>
        \A i \in 1..Len(flows) :
            (/\ flows[i].type \in supportedFlowFileTypes
             /\ \A r \in Roles : \A c \in 1..Len(flows[i].props[r]) : flows[i].props[r][c] = " ")
            => manifest = flows2Manifest(WithoutDoc(flows, i))

\* Some character of the text is not white space.
NonBlank(text) == \E i \in 1..Len(text) : text[i] # " "

\* The document of the collection with the given id (ids are unique).
DocOf(id) == flows[CHOOSE i \in 1..Len(flows) : flows[i].id = id]

\* The extension fixed for a role.
ExtensionOf(role) ==
    flowFilesProperties[CHOOSE k \in 1..Len(flowFilesProperties) :
                            flowFilesProperties[k].type = role].extension

\* The named tabs and subflows of the collection with the given id.
ContainersOf(id) ==
    {i \in 1..Len(flows) :
        /\ flows[i].id = id
        /\ flows[i].type \in {"tab", "subflow"}
        /\ (IF flows[i].type = "tab" THEN flows[i].label ELSE flows[i].name) # <<>>}

\* C19: after flows2Manifest, a document is in manifest.files iff its type is
\* function or ui-template and one of its role fields is not blank; the item
\* has one file per non-blank role field and no other, each named
\* baseFileName followed by the role's extension; and the item's folderName
\* is the folderName of the manifest folder of its container, or 'default'
\* when z names no named tab or subflow of the collection.
C19_ManifestFiles ==
    projCalls > 0 =>
        /\ \A i \in 1..Len(flows) :
              Cardinality({k \in 1..Len(manifest.files) : manifest.files[k].id = flows[i].id})
                = IF /\ flows[i].type \in {"function", "ui-template"}
                     /\ \E r \in Roles : NonBlank(flows[i].props[r])
                  THEN 1 ELSE 0
        /\ \A k \in 1..Len(manifest.files) :
              LET item == manifest.files[k]
                  doc == DocOf(item.id)
              IN  /\ \A r \in Roles :
                        Cardinality({j \in 1..Len(item.files) : item.files[j].type = r})
                          = IF NonBlank(doc.props[r]) THEN 1 ELSE 0
                  /\ \A j \in 1..Len(item.files) :
                        /\ item.files[j].type \in Roles
                        /\ item.files[j].name
                             = item.baseFileName \o ExtensionOf(item.files[j].type)
                  /\ IF ContainersOf(doc.z) = {}
                     THEN item.folderName = <<"default">>
                     ELSE \E f \in 1..Len(manifest.folders) :
                            /\ manifest.folders[f].id = doc.z
                            /\ item.folderName = manifest.folders[f].folderName

\* One item lies in the folder of its container, one has two files, and one
\* lies in the default folder.
C19_Witness ==
    /\ projCalls > 0
    /\ \E k \in 1..Len(manifest.files) :
          /\ ContainersOf(DocOf(manifest.files[k].id).z) # {}
          /\ manifest.files[k].folderName # <<"default">>
    /\ \E k \in 1..Len(manifest.files) :
          /\ Len(manifest.files[k].files) = 2
          /\ manifest.files[k].folderName = <<"default">>

====
